---- MODULE Spec2Model ----
(***************************************************************************)
(* nt2dc: conversion of typed named tuples (types and instances) into      *)
(* dataclasses, src/src/nt2dc/named_tuple.py.                              *)
(*                                                                         *)
(* Type objects are modelled as records.  A class is identified by its     *)
(* name; a synthesized dataclass additionally carries the identity `id`    *)
(* of the type object that dataclasses.make_dataclass created.  The        *)
(* runtime modelled is CPython >= 3.9: __BUILT_IN_REPLACEMENTS__ is None,  *)
(* subscripting a builtin class gives a types.GenericAlias, and such an    *)
(* alias answers __module__ and __qualname__ with those of its origin.     *)
(***************************************************************************)
EXTENDS Integers, Sequences, FiniteSets, TLC

\* Number of type objects one behaviour may create.
MaxId == 3

---------------------------------------------------------------------------
(* Type expressions *)

Atom(n) == [k |-> "atom", name |-> n]
Gen(b, a) == [k |-> "gen", base |-> b, args |-> a]
NT(n) == [k |-> "nt", name |-> n]
DC(i, n, f) == [k |-> "dc", id |-> i, name |-> n, fields |-> f]

\* The value of an expression that raised; also Python's None for a type.
NoType == Atom("None")

\* typing.NamedTuple classes of the caller: name -> ordered (field, annotation).
RecordNames == {"Empty", "Inner", "Outer", "Var"}

get_type_hints(clz) ==
    CASE clz = "Empty" -> << >>
      [] clz = "Inner" -> << <<"v", Atom("int")>> >>
      [] clz = "Outer" -> << <<"a", Atom("str")>>,
                             <<"b", Gen("typing.FrozenSet", <<Atom("int")>>)>>,
                             <<"x", NT("Inner")>>,
                             <<"y", Gen("typing.List",
                                        <<Gen("typing.FrozenSet", <<Atom("int")>>)>>)>>,
                             <<"z", Atom("frozenset")>>,
                             <<"d", Gen("typing.Tuple",
                                        <<Atom("int"), Atom("float"), Atom("bool")>>)>> >>
      [] clz = "Var" -> << <<"t", Gen("typing.Tuple",
                                      <<Atom("int"), Atom("Ellipsis")>>)>> >>

\* Substitution tables: None, or a mapping class -> class.
NoneTable == [isNone |-> TRUE, map |-> << >>]
Table(m) == [isNone |-> FALSE, map |-> m]

Tables ==
    << NoneTable,
       Table(Atom("frozenset") :> Atom("list") @@ Atom("int") :> Atom("typing.List")) >>

\* (prefix, suffix) pairs a caller passes; the first is the default.
Affixes == << <<"", "DataClass">>, <<"P", "">> >>

---------------------------------------------------------------------------
(* Results of the recursive type-level functions: the interpreter state   *)
(* they thread is the cache and the next fresh type identity.             *)

Ok(v, st) == [ok |-> TRUE, val |-> v, st |-> st]
Raise(st) == [ok |-> FALSE, val |-> NoType, st |-> st]

EmptyCache == << >>

\* Mutant: clear_cache leaves the entries in place.
clear_cache_kept(c) == c

clear_cache(c) == EmptyCache

\* Mutant: the lookup never finds an entry.
_get_from_cache_miss(c, clz) == NoType

_get_from_cache(c, clz) == IF clz \in DOMAIN c THEN c[clz] ELSE NoType

\* Mutant: the new class is not stored.
CacheStoreDropped(c, clz, result_class) == c

\* _type_cache[clz] = result_class
CacheStore(c, clz, result_class) ==
    [n \in DOMAIN c \cup {clz} |-> IF n = clz THEN result_class ELSE c[n]]

\* typing.get_args
get_args(value) == IF value.k = "gen" THEN value.args ELSE << >>

\* typing.get_origin: the runtime class behind a generic alias.
get_origin(value) ==
    CASE value.base = "typing.List" -> Atom("list")
      [] value.base = "typing.FrozenSet" -> Atom("frozenset")
      [] value.base = "typing.Tuple" -> Atom("tuple")
      [] value.base = "typing.Dict" -> Atom("dict")
      [] OTHER -> Atom(value.base)

\* Objects without a __dict__ make clz.__dict__ raise AttributeError.
HasDict(value) == ~(value.k = "atom" /\ value.name = "Ellipsis")

_is_namedtuple_class(clz) == clz.k = "nt"

\* The legacy name table of nt2dc.builtins.
BuiltInNames ==
    [t \in {Atom("typing.List"), Atom("typing.FrozenSet"),
            Atom("typing.Tuple"), Atom("typing.Dict")} |-> t.name]

KnownClasses ==
    {Atom(n) : n \in {"int", "float", "bool", "str", "list", "set", "frozenset",
                      "tuple", "dict", "typing.List", "typing.FrozenSet",
                      "typing.Tuple", "typing.Dict"}}

QualifiedName(t) ==
    IF t \in DOMAIN BuiltInNames THEN BuiltInNames[t] ELSE "builtins." \o t.name

\* qualname of _make_generic_type: the name and the updated _globals.
qualname(queried_type, globals) ==
    IF queried_type.k = "dc"
    THEN [name |-> queried_type.name,
          globals |-> [n \in DOMAIN globals \cup {queried_type.name} |->
                         IF n = queried_type.name THEN queried_type ELSE globals[n]]]
    ELSE IF queried_type.k = "gen"
    THEN [name |-> QualifiedName(Atom(queried_type.base)), globals |-> globals]
    ELSE IF queried_type.k = "nt"
    THEN [name |-> "__main__." \o queried_type.name, globals |-> globals]
    ELSE [name |-> QualifiedName(queried_type), globals |-> globals]

RECURSIVE QualNames(_, _, _)
QualNames(types, names, globals) ==
    IF types = << >> THEN [names |-> names, globals |-> globals]
    ELSE LET q == qualname(Head(types), globals)
         IN QualNames(Tail(types), Append(names, q.name), q.globals)

\* What a name of the composed expression evaluates to.
Resolve(name, globals) ==
    IF name \in DOMAIN globals THEN globals[name]
    ELSE CHOOSE t \in KnownClasses : QualifiedName(t) = name

\* base[args] is defined for the generic classes; the typing aliases also
\* check the number of parameters.
Subscriptable(base, n) ==
    /\ base.k = "atom"
    /\ \/ base.name \in {"list", "set", "frozenset", "tuple", "dict", "typing.Tuple"}
       \/ base.name \in {"typing.List", "typing.FrozenSet"} /\ n = 1
       \/ base.name = "typing.Dict" /\ n = 2

\* eval("Base[Arg1, Arg2, ...]", _globals)
Eval(base_type_name, generic_arg_names, globals, st) ==
    LET base == Resolve(base_type_name, globals)
        args == [i \in 1..Len(generic_arg_names) |->
                    Resolve(generic_arg_names[i], globals)]
    IN IF Subscriptable(base, Len(args)) THEN Ok(Gen(base.name, args), st)
       ELSE Raise(st)

\* Arguments the call in make_dataclass leaves to their defaults.
DefaultPrefix == ""
DefaultSuffix == ""
DefaultUseCache == FALSE

TargetName(prefix, name, suffix) == prefix \o name \o suffix

\* Mutant: the pair is put in front.
TypeHintsPrepend(type_hints, key, value) == <<<<key, value>>>> \o type_hints

\* type_hints.append((key, value))
TypeHintsAppend(type_hints, key, value) == Append(type_hints, <<key, value>>)

\* The origin of a generic alias after the table's substitution (lines 121-126).
SubstitutedOrigin(value, T) ==
    IF ~T.isNone /\ get_origin(value) \in DOMAIN T.map
    THEN T.map[get_origin(value)] ELSE get_origin(value)

\* Lines 216-226: the names of the rewritten arguments, composed and evaluated.
ComposeAndEval(b, generic_args_dc) ==
    IF ~generic_args_dc.ok THEN Raise(generic_args_dc.st)
    ELSE Eval(b.name, QualNames(generic_args_dc.val, << >>, b.globals).names,
              QualNames(generic_args_dc.val, << >>, b.globals).globals,
              generic_args_dc.st)

\* Lines 92-97: the new class, marked and stored when use_cache.
MakeRealDataclass(th, clz, prefix, suffix, use_cache) ==
    IF ~th.ok THEN Raise(th.st)
    ELSE Ok(DC(th.st.next, TargetName(prefix, clz, suffix), th.val),
            [next |-> th.st.next + 1,
             cache |-> IF use_cache
                       THEN CacheStore(th.st.cache, clz,
                                       DC(th.st.next, TargetName(prefix, clz, suffix),
                                          th.val))
                       ELSE th.st.cache])

RECURSIVE make_dataclass(_, _, _, _, _, _)
RECURSIVE _get_target_data_type_dc(_, _, _, _, _, _)
RECURSIVE RewriteArgs(_, _, _, _, _, _, _)
RECURSIVE RewriteArgsNext(_, _, _, _, _, _, _)
RECURSIVE RewriteOrigin(_, _, _, _, _, _)
RECURSIVE MakeGeneric(_, _, _, _, _, _)
RECURSIVE RewriteHints(_, _, _, _)
RECURSIVE RewriteHintsNext(_, _, _, _)
RECURSIVE _make_generic_type(_, _, _, _, _, _, _)

\* for arg in args: items.append(_get_target_data_type_dc(arg, ...))
RewriteArgs(args, T, prefix, suffix, use_cache, items, st) ==
    IF args = << >> THEN Ok(items, st)
    ELSE RewriteArgsNext(_get_target_data_type_dc(Head(args), T, prefix, suffix,
                                                  use_cache, st),
                         Tail(args), T, prefix, suffix, use_cache, items)

\* r is the rewritten head; a raise ends the loop.
RewriteArgsNext(r, rest, T, prefix, suffix, use_cache, items) ==
    IF ~r.ok THEN Raise(r.st)
    ELSE RewriteArgs(rest, T, prefix, suffix, use_cache, Append(items, r.val), r.st)

_make_generic_type(generic_base, generic_args, T, prefix, suffix, use_cache, st) ==
    ComposeAndEval(qualname(generic_base, << >>),
                   RewriteArgs(generic_args, T, prefix, suffix, use_cache, << >>, st))

\* Lines 134-141, origin being the rewritten origin.
MakeGeneric(origin, items, T, prefix, suffix, use_cache) ==
    IF ~origin.ok THEN Raise(origin.st)
    ELSE _make_generic_type(origin.val, items, T, prefix, suffix, use_cache, origin.st)

\* Lines 121-133, items being the rewritten arguments.
RewriteOrigin(items, value, T, prefix, suffix, use_cache) ==
    IF ~items.ok THEN Raise(items.st)
    ELSE MakeGeneric(_get_target_data_type_dc(SubstitutedOrigin(value, T), T, prefix,
                                              suffix, use_cache, items.st),
                     items.val, T, prefix, suffix, use_cache)

_get_target_data_type_dc(value, T, prefix, suffix, use_cache, st) ==
    IF Len(get_args(value)) > 0
    THEN RewriteOrigin(RewriteArgs(get_args(value), T, prefix, suffix, use_cache,
                                   << >>, st),
                       value, T, prefix, suffix, use_cache)
    ELSE IF ~HasDict(value) THEN Raise(st)
    ELSE IF _is_namedtuple_class(value)
    THEN make_dataclass(value.name, T, prefix, suffix, use_cache, st)
    ELSE Ok(value, st)

\* for key, value in get_type_hints(clz).items(): ...
RewriteHints(hints, T, type_hints, st) ==
    IF hints = << >> THEN Ok(type_hints, st)
    ELSE RewriteHintsNext(_get_target_data_type_dc(Head(hints)[2], T, DefaultPrefix,
                                                   DefaultSuffix, DefaultUseCache, st),
                          hints, T, type_hints)

\* r is the rewritten annotation of the first of hints.
RewriteHintsNext(r, hints, T, type_hints) ==
    IF ~r.ok THEN Raise(r.st)
    ELSE RewriteHints(Tail(hints), T,
                      TypeHintsAppend(type_hints, Head(hints)[1], r.val), r.st)

make_dataclass(clz, T, prefix, suffix, use_cache, st) ==
    IF use_cache /\ _get_from_cache(st.cache, clz) # NoType
    THEN Ok(_get_from_cache(st.cache, clz), st)
    ELSE MakeRealDataclass(RewriteHints(get_type_hints(clz), T, << >>, st),
                           clz, prefix, suffix, use_cache)

---------------------------------------------------------------------------
(* Values.  cls is the runtime class, v a scalar payload, items what the   *)
(* value holds: a container's elements in iteration order, a named tuple's *)
(* field values in field order.  A float is held in tenths.                *)

Val(cls, v, items) == [cls |-> cls, v |-> v, items |-> items]

\* The objects typing.NamedTuple and collections.abc.Iterable themselves.
NamedTupleObj == Val("function", 0, << >>)
IterableObj == Val("ABCMeta", 0, << >>)

FrozenSetOf(items) == Val("frozenset", 0, items)

Instances ==
    << Val("Empty", 0, << >>),
       Val("Inner", 0, << Val("int", 1, << >>) >>),
       Val("Outer", 0, << Val("str", 1, << >>),
                          FrozenSetOf(<<Val("int", 1, << >>), Val("int", 2, << >>),
                                        Val("int", 3, << >>)>>),
                          Val("Inner", 0, << Val("int", 1, << >>) >>),
                          Val("list", 0, << FrozenSetOf(<<Val("int", 1, << >>)>>) >>),
                          FrozenSetOf(<<Val("int", 2, << >>)>>),
                          Val("tuple", 0, << Val("int", 1, << >>), Val("float", 21, << >>),
                                             Val("bool", 1, << >>) >>) >>),
       Val("Inner", 0, << NamedTupleObj >>),
       Val("Inner", 0, << IterableObj >>) >>

\* type(value)
TypeOf(value) == IF value.cls \in RecordNames THEN NT(value.cls) ELSE Atom(value.cls)

HasAsDict(instance) == instance.cls \in RecordNames

\* instance._asdict().items()
AsDict(instance) ==
    [i \in 1..Len(instance.items) |->
        <<get_type_hints(instance.cls)[i][1], instance.items[i]>>]

IsIterable(value) ==
    value.cls \in {"list", "set", "frozenset", "tuple", "dict", "str"} \cup RecordNames

\* iter(value); a str of the model is one character long.
IterSeq(value) == IF value.cls = "str" THEN <<value>> ELSE value.items

RECURSIVE Dedup(_, _)
Dedup(items, seen) ==
    IF items = << >> THEN seen
    ELSE Dedup(Tail(items),
               IF \E i \in 1..Len(seen) : seen[i] = Head(items) THEN seen
               ELSE Append(seen, Head(items)))

OkV(v) == [ok |-> TRUE, val |-> v]
RaiseV == [ok |-> FALSE, val |-> Val("NoneType", 0, << >>)]

__BUILT_IN_CONSTRUCTORS__ ==
    Atom("typing.List") :> Atom("list") @@ Atom("typing.Dict") :> Atom("dict")
    @@ Atom("typing.Set") :> Atom("set") @@ Atom("typing.FrozenSet") :> Atom("frozenset")
    @@ Atom("typing.Tuple") :> Atom("tuple")

\* ctor(value) for the classes a table of the model maps to.
Construct(ctor, value) ==
    CASE ctor.name \in {"list", "tuple"} ->
            IF IsIterable(value) THEN OkV(Val(ctor.name, 0, IterSeq(value))) ELSE RaiseV
      [] ctor.name \in {"set", "frozenset"} ->
            IF IsIterable(value) THEN OkV(Val(ctor.name, 0, Dedup(IterSeq(value), << >>)))
            ELSE RaiseV
      [] ctor.name = "int" ->
            IF value.cls \in {"int", "bool"} THEN OkV(Val("int", value.v, << >>))
            ELSE IF value.cls = "float" THEN OkV(Val("int", value.v \div 10, << >>))
            ELSE RaiseV
      [] OTHER -> RaiseV

\* Mutant: the value is stored as it is.
ApplySubstitutionSkipped(key_type, value, T) == OkV(value)

\* Lines 279-287: the substitution by the runtime type of the field's value.
ApplySubstitution(key_type, value, T) ==
    IF ~T.isNone /\ key_type \in DOMAIN T.map
    THEN LET target_type == T.map[key_type]
             ctor == IF target_type \in DOMAIN __BUILT_IN_CONSTRUCTORS__
                     THEN __BUILT_IN_CONSTRUCTORS__[target_type] ELSE target_type
         IN Construct(ctor, value)
    ELSE OkV(value)

RECURSIVE _narrow_named_tuple_instance(_, _)
RECURSIVE NarrowEach(_, _, _)
RECURSIVE NarrowEachNext(_, _, _, _)
RECURSIVE NarrowItems(_, _, _)
RECURSIVE NarrowValue(_, _)
RECURSIVE Substitute(_, _, _, _)

AsDictValue(r) == IF r.ok THEN OkV(Val("dict", 0, r.val)) ELSE RaiseV

\* for item in value: narrowed_items.append(_narrow_named_tuple_instance(item, ...))
NarrowEach(items, T, narrowed_items) ==
    IF items = << >> THEN OkV(Val("list", 0, narrowed_items))
    ELSE NarrowEachNext(_narrow_named_tuple_instance(Head(items), T), Tail(items), T,
                        narrowed_items)

NarrowEachNext(r, rest, T, narrowed_items) ==
    IF ~r.ok THEN RaiseV
    ELSE NarrowEach(rest, T, Append(narrowed_items, Val("dict", 0, r.val)))

\* Lines 264-277: the identity tests against typing.NamedTuple and Iterable.
NarrowValue(value, T) ==
    IF value = NamedTupleObj
    THEN AsDictValue(_narrow_named_tuple_instance(value, T))
    ELSE IF value = IterableObj
    THEN IF ~IsIterable(value) THEN RaiseV
         ELSE IF \E i \in 1..Len(IterSeq(value)) : IterSeq(value)[i] = NamedTupleObj
         THEN NarrowEach(IterSeq(value), T, << >>)
         ELSE OkV(value)
    ELSE OkV(value)

\* Lines 279-289, n being the field's value after lines 264-277.
Substitute(n, pairs, T, result) ==
    IF ~n.ok THEN RaiseV
    ELSE IF ~ApplySubstitution(TypeOf(Head(pairs)[2]), n.val, T).ok THEN RaiseV
    ELSE NarrowItems(Tail(pairs), T,
                     Append(result,
                            <<Head(pairs)[1],
                              ApplySubstitution(TypeOf(Head(pairs)[2]), n.val, T).val>>))

\* for key, value in instance._asdict().items(): ...
NarrowItems(pairs, T, result) ==
    IF pairs = << >> THEN OkV(result)
    ELSE Substitute(NarrowValue(Head(pairs)[2], T), pairs, T, result)

_narrow_named_tuple_instance(instance, T) ==
    IF ~HasAsDict(instance) THEN RaiseV
    ELSE NarrowItems(AsDict(instance), T, << >>)

NoObject == [k |-> "obj", type |-> NoType, vals |-> << >>]

\* target_type(**items_narrowed): the generated __init__ takes exactly the fields.
Instantiate(target_type, kwargs) ==
    LET names == {kwargs[i][1] : i \in 1..Len(kwargs)}
        fields == target_type.fields
    IN IF names = {fields[i][1] : i \in 1..Len(fields)} /\ Len(kwargs) = Len(fields)
       THEN OkV([k |-> "obj", type |-> target_type,
                 vals |-> [i \in 1..Len(fields) |->
                             LET j == CHOOSE j \in 1..Len(kwargs) :
                                        kwargs[j][1] = fields[i][1]
                             IN <<fields[i][1], kwargs[j][2]>>]])
       ELSE [ok |-> FALSE, val |-> NoObject]

\* Keyword defaults of make_dataclass, used by get_dataclass_object.
MakeDataclassPrefix == ""
MakeDataclassSuffix == "DataClass"

\* Line 252, items_narrowed being the narrower's result.
NewInstance(target_type, items_narrowed, st) ==
    IF ~items_narrowed.ok
    THEN [ok |-> FALSE, type |-> target_type, narrowed |-> << >>, obj |-> NoObject,
          st |-> st]
    ELSE [ok |-> Instantiate(target_type, items_narrowed.val).ok, type |-> target_type,
          narrowed |-> items_narrowed.val,
          obj |-> Instantiate(target_type, items_narrowed.val).val, st |-> st]

\* Lines 249-254, target_type being the result of make_dataclass.
NarrowAndBuild(target_type, instance, T) ==
    IF ~target_type.ok
    THEN [ok |-> FALSE, type |-> NoType, narrowed |-> << >>, obj |-> NoObject,
          st |-> target_type.st]
    ELSE NewInstance(target_type.val, _narrow_named_tuple_instance(instance, T),
                     target_type.st)

get_dataclass_object(instance, T, use_cache, st) ==
    NarrowAndBuild(make_dataclass(instance.cls, T, MakeDataclassPrefix,
                                  MakeDataclassSuffix, use_cache, st),
                   instance, T)

---------------------------------------------------------------------------
(* The state machine: the module-level cache and the fresh type identity;  *)
(* the rest records the calls made and what they returned.                 *)

VARIABLES
    cache,          \* _type_cache
    nextId,         \* identity of the next type object created
    preReset,       \* at the last clear_cache: nextId (0 before the first) and
                    \* cachedReturned
    cachedReturned, \* (class, identity) returned with use_cache since the last clear
    last            \* the last call: arguments, outcome, state before it

vars == <<cache, nextId, preReset, cachedReturned, last>>

NoPrev == [same |-> FALSE, ok |-> FALSE, type |-> NoType]

Call(op, clz, table, affix, use_cache, inst) ==
    [op |-> op, clz |-> clz, table |-> table, affix |-> affix,
     use_cache |-> use_cache, inst |-> inst]

NoCall == Call("init", "", 1, 1, FALSE, 0)

Init ==
    /\ cache = EmptyCache
    /\ nextId = 1
    /\ preReset = [next |-> 0, returned |-> {}]
    /\ cachedReturned = {}
    /\ last = [call |-> NoCall, ok |-> TRUE, type |-> NoType, narrowed |-> << >>,
               obj |-> NoObject, cacheBefore |-> EmptyCache, nextBefore |-> 1,
               prev |-> NoPrev]

Start == [next |-> nextId, cache |-> cache]

\* What the last two calls have in common, kept for two successive
\* make_dataclass calls without use_cache and with the same arguments.
Prev(call) ==
    IF call.op = "make_dataclass" /\ ~call.use_cache /\ last.call = call
    THEN [same |-> TRUE, ok |-> last.ok, type |-> last.type]
    ELSE NoPrev

TypeResult(r) ==
    [ok |-> r.ok, type |-> r.val, narrowed |-> << >>, obj |-> NoObject, st |-> r.st]

\* A call that creates type objects is made while identities are left.
CanCreate(r) == r.st.next = nextId \/ nextId <= MaxId

MakeDataclass ==
    \E clz \in RecordNames, t \in DOMAIN Tables, a \in DOMAIN Affixes, uc \in BOOLEAN :
      \E r \in {TypeResult(make_dataclass(clz, Tables[t], Affixes[a][1], Affixes[a][2],
                                          uc, Start))} :
        /\ CanCreate(r)
        /\ cache' = r.st.cache
        /\ nextId' = r.st.next
        /\ cachedReturned' = IF r.ok /\ uc THEN cachedReturned \cup {<<clz, r.type.id>>}
                             ELSE cachedReturned
        /\ last' = [call |-> Call("make_dataclass", clz, t, a, uc, 0), ok |-> r.ok,
                    type |-> r.type, narrowed |-> r.narrowed, obj |-> r.obj,
                    cacheBefore |-> cache, nextBefore |-> nextId,
                    prev |-> Prev(Call("make_dataclass", clz, t, a, uc, 0))]
        /\ UNCHANGED preReset

GetDataclassObject ==
    \E i \in DOMAIN Instances, t \in DOMAIN Tables, uc \in BOOLEAN :
      \E r \in {get_dataclass_object(Instances[i], Tables[t], uc, Start)} :
        /\ CanCreate(r)
        /\ cache' = r.st.cache
        /\ nextId' = r.st.next
        /\ cachedReturned' = IF r.ok /\ uc
                             THEN cachedReturned \cup {<<Instances[i].cls, r.type.id>>}
                             ELSE cachedReturned
        /\ last' = [call |-> Call("get_dataclass_object", Instances[i].cls, t, 1, uc, i),
                    ok |-> r.ok, type |-> r.type, narrowed |-> r.narrowed,
                    obj |-> r.obj, cacheBefore |-> cache, nextBefore |-> nextId,
                    prev |-> NoPrev]
        /\ UNCHANGED preReset

ClearCache ==
    /\ cache' = clear_cache(cache)
    /\ preReset' = [next |-> nextId, returned |-> cachedReturned]
    /\ cachedReturned' = {}
    /\ last' = [call |-> Call("clear_cache", "", 1, 1, FALSE, 0), ok |-> TRUE,
                type |-> NoType, narrowed |-> << >>, obj |-> NoObject,
                cacheBefore |-> cache, nextBefore |-> nextId, prev |-> NoPrev]
    /\ UNCHANGED nextId

Next == MakeDataclass \/ GetDataclassObject \/ ClearCache

Spec == Init /\ [][Next]_vars

---------------------------------------------------------------------------
(* Properties *)

IsMake == last.call.op = "make_dataclass"
IsGet == last.call.op = "get_dataclass_object"
LastTable == Tables[last.call.table]

FieldNames(fields) == [i \in 1..Len(fields) |-> fields[i][1]]

\* A type with the identities of the synthesized classes left out.
RECURSIVE Struct(_)
Struct(t) ==
    IF t.k = "dc"
    THEN DC(0, t.name, [i \in 1..Len(t.fields) |->
                           <<t.fields[i][1], Struct(t.fields[i][2])>>])
    ELSE IF t.k = "gen" THEN Gen(t.base, [i \in 1..Len(t.args) |-> Struct(t.args[i])])
    ELSE t

\* Every type returned with use_cache since the last clear_cache is, per
\* source class, one and the same object.
CachedIdentical == \A p, q \in cachedReturned : p[1] = q[1] => p[2] = q[2]

\* The last two calls were make_dataclass(R, use_cache=False) with the same
\* arguments, and both returned.
UncachedPair ==
    IsMake /\ ~last.call.use_cache /\ last.ok /\ last.prev.same /\ last.prev.ok

C2_ResetForgets ==
    /\ last.call.op = "clear_cache" => cache = EmptyCache
    /\ IsMake /\ last.call.use_cache /\ last.ok /\ preReset.next > 0 =>
         /\ last.type.id >= preReset.next
         /\ \A p \in preReset.returned : p[1] = last.call.clz => p[2] # last.type.id
         /\ last.call.clz \notin DOMAIN last.cacheBefore =>
               last.type.id >= last.nextBefore

\* The class was cached before the reset and is converted again after it.
C2_Witness ==
    /\ IsMake /\ last.call.use_cache /\ last.ok
    /\ \E p \in preReset.returned : p[1] = last.call.clz
    /\ last.call.clz \notin DOMAIN last.cacheBefore

\* C3: the type make_dataclass returns has the field names of R, in R's order
\* (and so as many fields as R).
C3_FieldOrder ==
    (IsMake \/ IsGet) /\ last.ok =>
        FieldNames(last.type.fields) = FieldNames(get_type_hints(last.call.clz))

C3_Witness ==
    IsMake /\ last.ok /\ last.call.clz = "Outer" /\ ~LastTable.isNone
    /\ Len(last.type.fields) = 6

\* The rewrite the claim describes: arguments rewritten in place, the base
\* replaced when the table has it, everything else unchanged.
RECURSIVE ClaimedRewrite(_, _)
ClaimedRewrite(t, T) ==
    IF t.k = "gen"
    THEN Gen(IF ~T.isNone /\ get_origin(t) \in DOMAIN T.map
             THEN T.map[get_origin(t)].name ELSE get_origin(t).name,
             [j \in 1..Len(t.args) |-> ClaimedRewrite(t.args[j], T)])
    ELSE t

\* C4: a generic annotation base[a1..an] is rewritten to a generic of n
\* arguments, the i-th being the rewrite of ai, over T[base] or base; a
\* non-generic, non-record annotation is unchanged.
C4_Rewrite ==
    IsMake /\ last.ok =>
        \A i \in 1..Len(last.type.fields) :
            get_type_hints(last.call.clz)[i][2].k # "nt" =>
                last.type.fields[i][2]
                    = ClaimedRewrite(get_type_hints(last.call.clz)[i][2], LastTable)

\* What the claim says of field i of the instance built by the last call:
\* list(original) where the table maps the value's class to list, the
\* original value elsewhere.
FieldConverted(i) ==
    LET original == Instances[last.call.inst].items[i]
        new == last.obj.vals[i][2]
    IN /\ last.obj.vals[i][1] = get_type_hints(last.call.clz)[i][1]
       /\ IF ~LastTable.isNone /\ TypeOf(original) \in DOMAIN LastTable.map
          THEN /\ LastTable.map[TypeOf(original)] = Atom("list")
               /\ new = Val("list", 0, original.items)
               /\ new # original
          ELSE new = original

\* C5: get_dataclass_object builds the instance whose fields are the
\* replacement constructor applied to the original value where the value's
\* class is a key of the table, and the original value elsewhere.
C5_Values ==
    IsGet /\ last.ok =>
        /\ Len(last.obj.vals) = Len(Instances[last.call.inst].items)
        /\ \A i \in 1..Len(last.obj.vals) : FieldConverted(i)

C5_Witness ==
    /\ IsGet /\ last.ok /\ last.call.clz = "Outer" /\ ~LastTable.isNone
    /\ last.obj.vals[2][2].cls = "list"
    /\ last.obj.vals[3][2] = Instances[last.call.inst].items[3]

\* The class of a value is the class its type names, at every depth.
RECURSIVE ClassAgrees(_, _)
ClassAgrees(value, type) ==
    IF type.k = "atom" THEN value.cls = type.name
    ELSE IF type.k = "gen"
    THEN /\ value.cls = get_origin(type).name
         /\ \A j \in 1..Len(value.items) :
               ClassAgrees(value.items[j],
                           IF Len(type.args) = 1 THEN type.args[1] ELSE type.args[j])
    ELSE TRUE

\* C6: the values of the instance get_dataclass_object builds have the
\* container classes the fields of the derived type name: a substitution is
\* applied to a value exactly where it was applied to the type.
C6_Lockstep ==
    IsGet /\ last.ok =>
        \A i \in 1..Len(last.obj.vals) :
            ClassAgrees(last.obj.vals[i][2], last.type.fields[i][2])

\* C7: a call with use_cache=True that raises leaves the cache as it was.
C7_NothingCachedOnFailure ==
    (IsMake \/ IsGet) /\ last.call.use_cache /\ ~last.ok => cache = last.cacheBefore

\* C8: no named tuple instance remains in the narrower's output, as a field
\* value or as an element of one.
C8_Narrowed ==
    IsGet /\ last.ok =>
        \A i \in 1..Len(last.narrowed) :
            /\ last.narrowed[i][2].cls \notin RecordNames
            /\ \A j \in 1..Len(last.narrowed[i][2].items) :
                  last.narrowed[i][2].items[j].cls \notin RecordNames

\* C9: the class synthesized for a nested record type of a cached class is
\* the class cached for that record type.
C9_SynthesizedOnce ==
    \A outer \in DOMAIN cache :
        \A i \in 1..Len(get_type_hints(outer)) :
            LET nested == get_type_hints(outer)[i][2]
            IN nested.k = "nt" /\ nested.name \in DOMAIN cache =>
                   cache[outer].fields[i][2] = cache[nested.name]

\* C10: with use_cache=True a class found in the cache is returned as it is,
\* whatever the table, prefix and suffix of the call, and the cache stays as
\* it was; get_dataclass_object builds its instance with that class from
\* values narrowed under the table of the call.
C10_KeyedByType ==
    (IsMake \/ IsGet) /\ last.call.use_cache
    /\ last.call.clz \in DOMAIN last.cacheBefore =>
        /\ last.type = last.cacheBefore[last.call.clz]
        /\ cache = last.cacheBefore
        /\ IsMake => last.ok
        /\ IsGet /\ last.ok =>
              /\ last.obj.type = last.cacheBefore[last.call.clz]
              /\ \A i \in 1..Len(last.obj.vals) : FieldConverted(i)

\* An instance built with the class cached under no table and another
\* prefix, from values narrowed under the table of the call.
C10_Witness ==
    /\ IsGet /\ last.call.use_cache /\ last.ok /\ ~LastTable.isNone
    /\ last.call.clz = "Outer" /\ "Outer" \in DOMAIN last.cacheBefore
    /\ last.obj.type.name = "POuter"
    /\ last.obj.type.fields[2][2] = Gen("frozenset", <<Atom("int")>>)
    /\ last.obj.vals[2][2].cls = "list"

====
